---- MODULE Spec2Model ----
(***************************************************************************)
(* EVSE simulator (EvseSimulator.py): the EventBus, the Device decision    *)
(* algorithm set_draw, the per-device timer loop run, the meter loop and   *)
(* the two control handlers of DeviceSimulatorApp.                         *)
(*                                                                         *)
(* The specifications are given over the same variables:                  *)
(*   Spec     one Device of any valid configuration: set_draw with any    *)
(*            reading or none, the iteration of run, the power switch,    *)
(*            each one atomic step (the bus, the other loads and the      *)
(*            clock are the environment).  SpecSafe, SpecShed and SpecRun *)
(*            are Spec with the bookkeeping of the safe-mode, of the      *)
(*            shedding and of the five-cycle properties switched on;      *)
(*            SpecZero is Spec at total_amps = 0 and SpecRamp is Spec    *)
(*            for EVs of a wider range of draws;                          *)
(*   SpecLive one EV whose max_amp_draw is below total_amps, the meter    *)
(*            reading that EV alone, under fair scheduling;               *)
(*   SpecSys  the threads of the running program (meter thread, one       *)
(*            thread per device, the UI thread) stepping from lock        *)
(*            acquisition to lock acquisition, readings are poll_meter,   *)
(*            for a registry of one device (an EV or a non-EV load);      *)
(*   SpecBus  the EventBus alone, its three methods called by any thread  *)
(*            at any time.                                                *)
(***************************************************************************)
EXTENDS Integers, Sequences, FiniteSets, TLC

\* ---------------------------------------------------------------- bounds
MaxTotal == 3
MaxDraw == 2
MaxWeight == 4
MaxReading == 4
MaxCur == 4
MaxSubs == 3
MaxRampDraw == 3

\* ------------------------------------------------------ program constants
check_in_period_sec == 3
max_delay == 3
NoData == 0 - 1
Topic == "meter/data"

Min(a, b) == IF a < b THEN a ELSE b
Max(a, b) == IF a > b THEN a ELSE b
Abs(a) == IF a < 0 THEN 0 - a ELSE a

\* A timestamp is kept as its age in seconds.  Time advances in steps of
\* check_in_period_sec; twice that stands for every age above it, which is
\* all that line 188 tells apart.
StaleAge == 2 * check_in_period_sec
Older(age) == Min(age + check_in_period_sec, StaleAge)

VARIABLES
    watch,           \* which bookkeeping variables are maintained
    total_amps,      \* DeviceSimulatorApp.total_amps
    devices,         \* DeviceSimulatorApp.devices: the names, in registry order
    cfg,             \* per device: the constructor arguments
    dev,             \* per device: the mutable fields
    subscribers,     \* EventBus.subscribers["meter/data"] (<<>>: key absent)
    bus_lock,        \* EventBus.lock: holding thread or "none"
    dev_lock,        \* Device.lock per device: holding thread or "none"
    pc,              \* per thread: position
    tdev,            \* per thread: the device whose run / set_draw it executes
    tdata,           \* per thread: the argument of the set_draw call in progress
    ton,             \* per thread: the value of is_on read at line 80
    pub_idx,         \* per thread: index of the for loop of its publish
    meter_reading,   \* local of meter_loop
    now_stale,       \* per device: age of the last reading delivered to it
    stale_ticked,    \* per device: a timer tick ran while on and reading-stale
    shed_run,        \* per device: consecutive weighted sheds, and how many
                     \* of them preceded the full shed just performed
    scn,             \* per device: run of identical overdraw readings
    last,            \* the set_draw invocation this state results from, if any
    fresh,           \* per thread: its set_draw in progress started after the
                     \* last toggle of the device
    settled,         \* per device, while off: a set_draw started after the
                     \* toggle has returned
    ticked,          \* per device, while off: an iteration of a run loop has
                     \* ended that called set_draw after the toggle, or that
                     \* tested is_on after the toggle and did not call
    snapshot,        \* per thread: subscriber list when its publish started
    delivered        \* per thread: handles its publish invoked, in order

cfgVars == <<watch, total_amps, devices, cfg>>
lockVars == <<bus_lock, dev_lock>>
callVars == <<tdata, ton>>
meterVars == <<pub_idx, meter_reading>>
safeVars == <<now_stale, stale_ticked>>
shedVars == <<shed_run, scn>>
offVars == <<fresh, settled, ticked>>
pubVars == <<snapshot, delivered>>
vars == <<watch, total_amps, devices, cfg, dev, subscribers, bus_lock, dev_lock, pc,
          tdev, tdata, ton, pub_idx, meter_reading, now_stale, stale_ticked,
          shed_run, scn, last, fresh, settled, ticked, snapshot, delivered>>

Devs == DOMAIN cfg
Threads == {"meter", "ui"} \cup Devs

\* ------------------------------------------------------------- Device
\* Device.__init__: the fields of a new device.
NewDevice ==
    [is_on |-> FALSE, is_connected |-> TRUE, current_amp_draw |-> 0,
     desired_amp_draw |-> 0, waited_cycles |-> 0, hb_age |-> StaleAge,
     carryover_adjustment |-> 0]

\* Device.__init__ raises ValueError for an EV whose safe draw is a non-zero
\* value below the minimum.
ConstructorAccepts(c) ==
    ~(c.is_ev /\ c.safe_amp_draw < c.min_amp_draw /\ c.safe_amp_draw > 0)

\* The configurations of section 3 of the design: 0 < min <= max,
\* safe = 0 or safe >= min, weight a positive integer.  A non-EV device is
\* built as main builds it (max = min, no safe draw, no weight).
Configs ==
    { c \in [min_amp_draw : 1..MaxDraw, max_amp_draw : 1..MaxDraw,
             safe_amp_draw : 0..MaxDraw, weight : 1..MaxWeight,
             is_ev : BOOLEAN, always_draw_min : BOOLEAN] :
        /\ c.min_amp_draw <= c.max_amp_draw
        /\ ConstructorAccepts(c)
        /\ c.safe_amp_draw = 0 \/ c.safe_amp_draw >= c.min_amp_draw
        /\ ~c.is_ev => /\ c.max_amp_draw = c.min_amp_draw
                       /\ c.safe_amp_draw = 0
                       /\ c.weight = 1
                       /\ c.always_draw_min }

\* min_amp_draw if always_draw_min else 0 (lines 124, 130, 133).
Floor(c) == IF c.always_draw_min THEN c.min_amp_draw ELSE 0

\* IEEE double rounding of overdraw * (1 - weight / total_amps): the triples
\* <<total_amps, weight, overdraw>> for which the product falls on the zero
\* side of its exact integer value, so that math.modf yields an integer part
\* one closer to zero (enumerated for total_amps <= 6, weight <= 8,
\* overdraw <= 10).
FloatShort ==
    { <<3, 4, 3>>, <<3, 4, 6>>, <<3, 4, 9>>, <<3, 8, 9>>, <<5, 4, 5>>,
      <<5, 4, 10>>, <<5, 6, 5>>, <<5, 6, 10>>, <<5, 7, 5>>, <<5, 7, 10>>,
      <<6, 5, 6>>, <<6, 8, 3>>, <<6, 8, 6>>, <<6, 8, 9>> }

\* (_, weighted_shed_amps) = math.modf(overdraw * (1 - weight_pct)):
\* the integer part, truncated towards zero, of overdraw*(total-weight)/total.
weighted_shed_amps(overdraw, weight, total) ==
    LET num == overdraw * (total - weight)
        exact == IF num >= 0 THEN num \div total ELSE 0 - ((0 - num) \div total)
    IN  IF <<total, weight, overdraw>> \in FloatShort
        THEN (IF exact > 0 THEN exact - 1 ELSE exact + 1)
        ELSE exact

\* random_pct < weight_pct with random_pct drawn from
\* {0, 1/0xFFFFFFFF, ..., 1}: 0 always wins, 1 loses unless weight > total.
LotteryOutcomes(weight, total) ==
    IF weight > total THEN {TRUE} ELSE BOOLEAN

IsPow2(n) == n \in {1, 2, 4, 8, 16}

\* Shed without the collapse of lines 128-134.
ShedMutNoFloor(c, s, overdraw, total) ==
    LET full == s.waited_cycles > max_delay
        shed_amount == IF full THEN Min(overdraw, s.current_amp_draw)
                       ELSE weighted_shed_amps(overdraw, c.weight, total)
    IN  [s EXCEPT !.waited_cycles = IF full THEN 0 ELSE s.waited_cycles + 1,
                  !.desired_amp_draw =
                      Max(Floor(c), s.current_amp_draw - overdraw),
                  !.current_amp_draw = s.current_amp_draw - shed_amount]

\* Shed with the full shed one cycle later (waited_cycles > max_delay + 1).
ShedMutLate(c, s, overdraw, total) ==
    LET full == s.waited_cycles > max_delay + 1
        shed_amount == IF full THEN Min(overdraw, s.current_amp_draw)
                       ELSE weighted_shed_amps(overdraw, c.weight, total)
        waited == IF full THEN 0 ELSE s.waited_cycles + 1
        desired == Max(Floor(c), s.current_amp_draw - overdraw)
        current == s.current_amp_draw - shed_amount
    IN  IF current < c.min_amp_draw
        THEN [s EXCEPT !.waited_cycles = waited,
                       !.desired_amp_draw = Floor(c),
                       !.current_amp_draw = Floor(c)]
        ELSE [s EXCEPT !.waited_cycles = waited,
                       !.desired_amp_draw = desired,
                       !.current_amp_draw = current]

\* The overdraw branch, lines 104-134.
Shed(c, s, overdraw, total) ==
    LET full == s.waited_cycles > max_delay
        shed_amount == IF full THEN Min(overdraw, s.current_amp_draw)
                       ELSE weighted_shed_amps(overdraw, c.weight, total)
        waited == IF full THEN 0 ELSE s.waited_cycles + 1
        desired == Max(Floor(c), s.current_amp_draw - overdraw)
        current == s.current_amp_draw - shed_amount
    IN  IF current < c.min_amp_draw
        THEN [s EXCEPT !.waited_cycles = waited,
                       !.desired_amp_draw = Floor(c),
                       !.current_amp_draw = Floor(c)]
        ELSE [s EXCEPT !.waited_cycles = waited,
                       !.desired_amp_draw = desired,
                       !.current_amp_draw = current]

\* The candidate of the headroom branch, lines 137-142.
Candidate(c, s, available_amps) ==
    LET d == Min(c.max_amp_draw, s.current_amp_draw + available_amps)
    IN  IF d < c.min_amp_draw THEN c.min_amp_draw ELSE d

\* A stability gate that never lets an invocation through.
UnstableMutAlways(previous, desired) == TRUE

\* abs(previous_desired_amp_draw - desired_amp_draw) / desired_amp_draw > 0.1
Unstable(previous, desired) == 10 * Abs(previous - desired) > desired

\* math.modf(weighted_increase_amps + carryover_adjustment), lines 164-170.
\* carryover_adjustment is kept as a numerator over total_amps; the value
\* total_amps stands for a double just below 1.  When total_amps is not a
\* power of two weight_pct and the carryover are inexact, and a sum whose
\* exact value is an integer may come out just below it: the integer part is
\* then one less and the fraction just below 1 (drop).  A zero increase adds
\* nothing to the carryover, so a carryover just below 1 stays there.
DropChoices(diffw, carry, total) ==
    IF IsPow2(total) \/ carry = 0 \/ (diffw + carry) % total # 0 THEN {FALSE}
    ELSE IF diffw = 0 THEN {TRUE}
    ELSE BOOLEAN

\* modf with the fractional part thrown away.
ModfMutTruncate(diffw, carry, total, drop) ==
    [increase |-> (diffw + carry) \div total, fraction |-> 0]

Modf(diffw, carry, total, drop) ==
    LET num == diffw + carry
        choices == DropChoices(diffw, carry, total)
        d == IF choices = BOOLEAN THEN drop ELSE TRUE \in choices
    IN  IF d THEN [increase |-> (num \div total) - 1, fraction |-> total]
        ELSE [increase |-> num \div total, fraction |-> num % total]

\* The headroom branch, lines 135-174.
Ramp(c, s, available_amps, total, lucky, drop) ==
    LET previous == s.desired_amp_draw
        desired == Candidate(c, s, available_amps)
        s1 == [s EXCEPT !.desired_amp_draw = desired]
    IN  IF Unstable(previous, desired) THEN s1
        ELSE IF ~lucky THEN s1
        ELSE IF s.current_amp_draw = 0
        THEN (IF available_amps >= c.min_amp_draw
              THEN [s1 EXCEPT !.current_amp_draw = c.min_amp_draw]
              ELSE s1)
        ELSE LET m == Modf((desired - s.current_amp_draw) * c.weight,
                           s.carryover_adjustment, total, drop)
                 current == s.current_amp_draw + Min(1, m.increase)
             IN  [s1 EXCEPT !.carryover_adjustment = m.fraction,
                            !.current_amp_draw =
                                IF current > c.max_amp_draw
                                THEN c.max_amp_draw ELSE current]

\* The safe-mode clamp taken for a state transition that resets the
\* hysteresis counter.
SafeClampMutResets(c, s, data) ==
    IF data = NoData /\ s.current_amp_draw > c.safe_amp_draw
    THEN [s EXCEPT !.current_amp_draw = c.safe_amp_draw,
                   !.desired_amp_draw = c.safe_amp_draw,
                   !.waited_cycles = 0]
    ELSE s

\* Lines 94-102: the safe-mode clamp and the available amps.
SafeClamp(c, s, data) ==
    IF data = NoData /\ s.current_amp_draw > c.safe_amp_draw
    THEN [s EXCEPT !.current_amp_draw = c.safe_amp_draw,
                   !.desired_amp_draw = c.safe_amp_draw]
    ELSE s

AvailableAmps(c, s, data, total) ==
    IF data = NoData
    THEN (IF s.current_amp_draw # c.safe_amp_draw THEN c.safe_amp_draw ELSE 0)
    ELSE total - data

\* set_draw with a non-EV load that sheds its overdraw like an EV.
set_drawMutNonEvSheds(c, s, on, data, total, lucky, drop) ==
    IF ~on
    THEN [s EXCEPT !.current_amp_draw = 0, !.desired_amp_draw = 0,
                   !.waited_cycles = 0]
    ELSE IF c.is_ev
    THEN LET s0 == [s EXCEPT !.hb_age = 0]
         IN  IF c.always_draw_min /\ s0.current_amp_draw = 0
             THEN [s0 EXCEPT !.current_amp_draw = c.min_amp_draw,
                             !.desired_amp_draw = c.min_amp_draw]
             ELSE LET s1 == SafeClamp(c, s0, data)
                      available_amps == AvailableAmps(c, s1, data, total)
                  IN  IF available_amps < 0
                      THEN Shed(c, s1, 0 - available_amps, total)
                      ELSE IF s1.current_amp_draw < c.max_amp_draw
                      THEN Ramp(c, s1, available_amps, total, lucky, drop)
                      ELSE s1
    ELSE IF s.current_amp_draw = 0
    THEN [s EXCEPT !.current_amp_draw = c.min_amp_draw,
                   !.desired_amp_draw = c.min_amp_draw]
    ELSE IF data # NoData /\ data > total
    THEN [s EXCEPT !.current_amp_draw = Max(0, @ - (data - total))]
    ELSE s

\* Device.set_draw with the lock held.  on is the value of is_on read at
\* line 80, data is NoData or the "amps" of the reading, lucky the outcome
\* of the lottery of line 157, drop the rounding of line 168.
set_draw(c, s, on, data, total, lucky, drop) ==
    IF ~on
    THEN [s EXCEPT !.current_amp_draw = 0, !.desired_amp_draw = 0,
                   !.waited_cycles = 0]
    ELSE IF c.is_ev
    THEN LET s0 == [s EXCEPT !.hb_age = 0]
         IN  IF c.always_draw_min /\ s0.current_amp_draw = 0
             THEN [s0 EXCEPT !.current_amp_draw = c.min_amp_draw,
                             !.desired_amp_draw = c.min_amp_draw]
             ELSE LET s1 == SafeClamp(c, s0, data)
                      available_amps == AvailableAmps(c, s1, data, total)
                  IN  IF available_amps < 0
                      THEN Shed(c, s1, 0 - available_amps, total)
                      ELSE IF s1.current_amp_draw < c.max_amp_draw
                      THEN Ramp(c, s1, available_amps, total, lucky, drop)
                      ELSE s1
    ELSE IF s.current_amp_draw = 0
    THEN [s EXCEPT !.current_amp_draw = c.min_amp_draw,
                   !.desired_amp_draw = c.min_amp_draw]
    ELSE s

\* weight / total_amps with total_amps = 0 raises ZeroDivisionError: at line
\* 110, in a weighted shed, and at line 154, in the headroom branch past the
\* stability gate.  No other division is by total_amps.
Raises(c, s, on, data, total) ==
    /\ total = 0 /\ on /\ c.is_ev
    /\ ~(c.always_draw_min /\ s.current_amp_draw = 0)
    /\ LET s1 == SafeClamp(c, s, data)
           available_amps == AvailableAmps(c, s1, data, total)
       IN  IF available_amps < 0 THEN s1.waited_cycles <= max_delay
           ELSE /\ s1.current_amp_draw < c.max_amp_draw
                /\ ~Unstable(s1.desired_amp_draw,
                             Candidate(c, s1, available_amps))

\* The fields as the exception leaves them: the heartbeat of line 87, the
\* clamp of lines 96-98 and, in the headroom branch, the candidate of lines
\* 137-142 have been assigned.
Partial(c, s, data, total) ==
    LET s1 == SafeClamp(c, [s EXCEPT !.hb_age = 0], data)
        available_amps == AvailableAmps(c, s1, data, total)
    IN  IF available_amps < 0 THEN s1
        ELSE [s1 EXCEPT !.desired_amp_draw = Candidate(c, s1, available_amps)]

\* The branch of set_draw an invocation takes (post: the fields it leaves; a
\* full compliant shed is the shed that resets waited_cycles).
Branch(c, s, post, on, data, total, lucky) ==
    IF ~on THEN "off"
    ELSE IF ~c.is_ev
    THEN (IF s.current_amp_draw = 0 THEN "nonev_start" ELSE "nonev_hold")
    ELSE IF c.always_draw_min /\ s.current_amp_draw = 0 THEN "bootstrap"
    ELSE LET s1 == SafeClamp(c, s, data)
             available_amps == AvailableAmps(c, s1, data, total)
         IN  IF available_amps < 0
             THEN (IF post.waited_cycles = 0
                   THEN "shed_full" ELSE "shed_weighted")
             ELSE IF s1.current_amp_draw >= c.max_amp_draw THEN "at_max"
             ELSE IF Unstable(s1.desired_amp_draw,
                              Candidate(c, s1, available_amps)) THEN "unstable"
             ELSE IF ~lucky THEN "not_admitted"
             ELSE IF s1.current_amp_draw = 0 THEN "start"
             ELSE "ramp"

\* Device.run, lines 187-192: whether this iteration calls set_draw(None).
TickCalls(c, s) ==
    IF c.is_ev /\ s.is_on THEN s.hb_age > check_in_period_sec ELSE TRUE

\* ------------------------------------------------------------ EventBus
\* EventBus.subscribe: append (the list is created when the key is absent).
subscribe(subs, callback) == Append(subs, callback)

\* list.remove: the first occurrence; ValueError (absent) is swallowed; an
\* empty list is deleted, which is again <<>>.
RECURSIVE RemoveFirst(_, _)
RemoveFirst(subs, callback) ==
    IF subs = <<>> THEN <<>>
    ELSE IF Head(subs) = callback THEN Tail(subs)
    ELSE <<Head(subs)>> \o RemoveFirst(Tail(subs), callback)

unsubscribe(subs, callback) == RemoveFirst(subs, callback)

Count(subs, callback) ==
    Cardinality({i \in 1..Len(subs) : subs[i] = callback})

\* DeviceSimulatorApp.poll_meter
RECURSIVE SumDraw(_, _)
SumDraw(names, d) ==
    IF names = <<>> THEN 0
    ELSE d[Head(names)].current_amp_draw + SumDraw(Tail(names), d)

poll_meter == SumDraw(devices, dev)

\* --------------------------------------------- any invocation of set_draw
\* What a caller can pass as data: None, or a reading {"amps": n}.
Readings == {NoData} \cup (0..MaxReading)

\* The numerator of weighted_increase_amps, line 161, of an invocation that
\* reaches it: (desired_amp_draw - current_amp_draw) * weight.
RawIncrease(c, s, data, total) ==
    LET s1 == SafeClamp(c, s, data)
    IN  (Candidate(c, s1, AvailableAmps(c, s1, data, total))
         - s1.current_amp_draw) * c.weight

\* ------------------------------------------------- bookkeeping of a call
NoLast == [dev |-> "none", branch |-> "none"]

NoScn == [n |-> 0, c0 |-> 0, o |-> 0, reset |-> FALSE]

\* A run of set_draw invocations of an on EV that all carry the same
\* overdraw reading, begun (track) at an invocation with waited_cycles = 0:
\* n counts them, c0 is current_amp_draw before the first, o the overdraw,
\* reset whether waited_cycles was reset by one of them.
ScnStep(sc, c, pre, on, data, total, br, track) ==
    LET over == on /\ c.is_ev /\ data # NoData /\ data > total
    IN  IF over /\ sc.n \in 1..4 /\ data - total = sc.o
        THEN [sc EXCEPT !.n = sc.n + 1,
                        !.reset = sc.reset \/ br = "shed_full"]
        ELSE IF over /\ track /\ pre.waited_cycles = 0
        THEN [n |-> 1, c0 |-> pre.current_amp_draw, o |-> data - total,
              reset |-> br = "shed_full"]
        ELSE NoScn

\* The outcomes of the lottery and of the rounding that an invocation can
\* tell apart: the lottery is drawn only past the stability gate, the sum is
\* rounded only on the ramp of a drawing device.
Draws(c, s, on, data, total) ==
    LET br == Branch(c, s, s, on, data, total, TRUE)
        s1 == SafeClamp(c, s, data)
        diffw == (Candidate(c, s1, AvailableAmps(c, s1, data, total))
                  - s1.current_amp_draw) * c.weight
    IN  IF Raises(c, s, on, data, total) THEN {<<TRUE, FALSE>>}
        ELSE IF br = "ramp"
        THEN LotteryOutcomes(c.weight, total)
             \X DropChoices(diffw, s1.carryover_adjustment, total)
        ELSE IF br = "start" THEN LotteryOutcomes(c.weight, total) \X {FALSE}
        ELSE {<<TRUE, FALSE>>}

\* weighted: the weighted sheds performed by consecutive invocations;
\* full_after: set by a full compliant shed to the number of weighted sheds
\* of the run it ends.
NoRun == [weighted |-> 0, full_after |-> NoData]

ShedRunStep(r, br) ==
    IF br = "shed_weighted" THEN [weighted |-> r.weighted + 1, full_after |-> NoData]
    ELSE IF br = "shed_full" THEN [weighted |-> 0, full_after |-> r.weighted]
    ELSE NoRun

\* One invocation of set_draw on device d, from the acquisition of the device
\* lock to its release, by return or by exception.
Invoke(d, on, data, draw, track) ==
    LET c == cfg[d]
        pre == dev[d]
        lucky == draw[1]
        raised == Raises(c, pre, on, data, total_amps)
        post == IF raised THEN Partial(c, pre, data, total_amps)
                ELSE set_draw(c, pre, on, data, total_amps, lucky, draw[2])
        br == IF raised THEN "ZeroDivisionError"
              ELSE Branch(c, pre, post, on, data, total_amps, lucky)
    IN  /\ post.current_amp_draw <= MaxCur
        /\ dev' = [dev EXCEPT ![d] = post]
        /\ last' = IF watch \in {"draw", "zero"}
                    THEN [dev |-> d, branch |-> br] ELSE NoLast
        /\ shed_run' = IF watch = "shed"
                       THEN [shed_run EXCEPT ![d] = ShedRunStep(@, br)]
                       ELSE shed_run
        /\ scn' = IF watch = "run"
                  THEN [scn EXCEPT ![d] = ScnStep(@, c, pre, on, data,
                                                  total_amps, br, track)]
                  ELSE scn

\* A power toggle of d ends what was established about d since the last one.
ToggleMarks(d) ==
    /\ stale_ticked' = [stale_ticked EXCEPT ![d] = FALSE]
    /\ fresh' = [t \in Threads |-> IF tdev[t] = d THEN FALSE ELSE fresh[t]]
    /\ settled' = [settled EXCEPT ![d] = FALSE]
    /\ ticked' = [ticked EXCEPT ![d] = FALSE]

\* ---------------------------------------------------------------- Init
InitWith(w, total, names, conf) ==
    /\ watch = w
    /\ total_amps = total
    /\ devices = names
    /\ cfg = conf
    /\ dev = [d \in DOMAIN conf |-> NewDevice]
    /\ subscribers = <<>>
    /\ bus_lock = "none"
    /\ dev_lock = [d \in DOMAIN conf |-> "none"]
    /\ pc = [t \in {"meter", "ui"} \cup DOMAIN conf |->
                IF w = "bus" \/ t = "ui" THEN "idle"
                ELSE IF t = "meter" THEN "poll" ELSE "start"]
    /\ tdev = [t \in {"meter", "ui"} \cup DOMAIN conf |->
                IF t \in DOMAIN conf THEN t ELSE "none"]
    /\ tdata = [t \in {"meter", "ui"} \cup DOMAIN conf |-> NoData]
    /\ ton = [t \in {"meter", "ui"} \cup DOMAIN conf |-> FALSE]
    /\ pub_idx = [t \in {"meter", "ui"} \cup DOMAIN conf |-> 0]
    /\ meter_reading = 0
    /\ now_stale = [d \in DOMAIN conf |-> StaleAge]
    /\ stale_ticked = [d \in DOMAIN conf |-> FALSE]
    /\ shed_run = [d \in DOMAIN conf |-> NoRun]
    /\ scn = [d \in DOMAIN conf |-> NoScn]
    /\ last = NoLast
    /\ fresh = [t \in {"meter", "ui"} \cup DOMAIN conf |-> FALSE]
    /\ settled = [d \in DOMAIN conf |-> FALSE]
    /\ ticked = [d \in DOMAIN conf |-> FALSE]
    /\ snapshot = [t \in {"meter", "ui"} \cup DOMAIN conf |-> <<>>]
    /\ delivered = [t \in {"meter", "ui"} \cup DOMAIN conf |-> <<>>]

DeviceName(c) == IF c.is_ev THEN "EV1" ELSE "AC"

InitDevice(w) ==
    \E total \in 1..MaxTotal, c \in Configs :
        InitWith(w, total, <<DeviceName(c)>>, DeviceName(c) :> c)

Init == InitDevice("draw")
InitSafe == InitDevice("safe")
InitShed == InitDevice("shed")
InitRun == InitDevice("run")

\* EVs with room for a step of two amps or more, weighted as main weights
\* them (weight = random.randint(1, total_amps)).
RampConfigs ==
    { c \in [min_amp_draw : 1..MaxRampDraw, max_amp_draw : 1..MaxRampDraw,
             safe_amp_draw : 0..MaxRampDraw, weight : 1..MaxTotal,
             is_ev : {TRUE}, always_draw_min : BOOLEAN] :
        /\ c.min_amp_draw <= c.max_amp_draw
        /\ ConstructorAccepts(c)
        /\ c.safe_amp_draw \in {0, c.min_amp_draw} }

InitRamp ==
    \E total \in 1..MaxTotal, c \in RampConfigs :
        /\ c.weight <= total
        /\ InitWith("ramp", total, <<DeviceName(c)>>, DeviceName(c) :> c)

\* DeviceSimulatorApp(total_amps=0) with one device of any configuration.
InitZero ==
    \E c \in Configs :
        InitWith("zero", 0, <<DeviceName(c)>>, DeviceName(c) :> c)

\* ------------------------------------------------------------- locks
\* threading.Lock: acquire blocks while another thread holds the lock.
BusLockFreeMutNoLock == TRUE

BusLockFree == bus_lock = "none"

DevLockFreeMutNoLock(d) == TRUE

DevLockFree(d) == dev_lock[d] = "none"

\* The early return of line 84 leaving the device lock held.
ReleaseDeviceMutEarlyReturn(d, on) ==
    IF on THEN [dev_lock EXCEPT ![d] = "none"] ELSE dev_lock

\* The end of "with self.lock" in set_draw: the lock is released on every
\* path, the early return of the off branch (on = FALSE) included.
ReleaseDevice(d, on) == [dev_lock EXCEPT ![d] = "none"]

\* ------------------------------------------------------------- actions
\* Device.run, lines 182-184, by thread t (a device thread, or the UI
\* thread inside on_input_submitted): the subscription of an EV.
RunStart(t) ==
    /\ pc[t] = "start"
    /\ cfg[tdev[t]].is_ev => BusLockFree
    /\ subscribers' = IF cfg[tdev[t]].is_ev
                      THEN subscribe(subscribers, tdev[t]) ELSE subscribers
    /\ pc' = [pc EXCEPT ![t] = "loop"]
    /\ UNCHANGED <<cfgVars, dev, lockVars, tdev, callVars, meterVars,
                   safeVars, shedVars, offVars, pubVars>>
    /\ last' = NoLast

\* One iteration of the loop of Device.run, lines 186-194.  An exception of
\* set_draw is caught nowhere: it ends the thread.
RunTick(t) ==
    /\ pc[t] \in {"start", "loop"}
    /\ LET d == tdev[t] IN
        /\ IF TickCalls(cfg[d], dev[d])
           THEN \E draw \in Draws(cfg[d], dev[d], dev[d].is_on, NoData,
                                    total_amps) :
                    Invoke(d, dev[d].is_on, NoData, draw, FALSE)
           ELSE UNCHANGED <<dev, shedVars>> /\ last' = NoLast
        /\ stale_ticked' =
              [stale_ticked EXCEPT
                  ![d] = @ \/ (watch = "safe" /\ cfg[d].is_ev /\ dev[d].is_on
                               /\ now_stale[d] > check_in_period_sec)]
        /\ pc' = IF /\ TickCalls(cfg[d], dev[d])
                    /\ Raises(cfg[d], dev[d], dev[d].is_on, NoData, total_amps)
                 THEN [pc EXCEPT ![t] = "dead"] ELSE pc
    /\ UNCHANGED <<cfgVars, subscribers, lockVars, tdev, callVars,
                   meterVars, now_stale, offVars, pubVars>>

\* set_draw called with a reading (EventBus.publish, line 20, reaching a
\* registration of d, in the meter thread: an exception of set_draw leaves
\* publish and meter_loop and ends that thread).
Deliver(d, amps, track) ==
    /\ track => watch = "run"
    /\ pc["meter"] # "dead"
    /\ pc' = IF Raises(cfg[d], dev[d], dev[d].is_on, amps, total_amps)
             THEN [pc EXCEPT !["meter"] = "dead"] ELSE pc
    /\ \E draw \in Draws(cfg[d], dev[d], dev[d].is_on, amps, total_amps) :
           Invoke(d, dev[d].is_on, amps, draw, track)
    /\ now_stale' = IF watch = "safe"
                    THEN [now_stale EXCEPT ![d] = 0] ELSE now_stale
    /\ stale_ticked' = [stale_ticked EXCEPT ![d] = FALSE]
    /\ UNCHANGED <<cfgVars, subscribers, lockVars, tdev, callVars,
                   meterVars, offVars, pubVars>>

\* on_data_table_cell_selected, column "status", lines 342-352.
ClickStatus(d) ==
    /\ pc["ui"] = "idle"
    /\ dev' = [dev EXCEPT ![d].is_on = ~@]
    /\ ToggleMarks(d)
    /\ UNCHANGED <<cfgVars, subscribers, lockVars, pc, tdev, callVars,
                   meterVars, now_stale, shedVars, pubVars>>
    /\ last' = NoLast

\* on_data_table_cell_selected, column "device", line 358: the flip; the
\* call of the bus follows.
ClickDevice(d) ==
    /\ pc["ui"] = "idle"
    /\ dev' = [dev EXCEPT ![d].is_connected = ~@]
    /\ pc' = [pc EXCEPT !["ui"] = IF dev[d].is_connected THEN "unsub" ELSE "sub"]
    /\ tdev' = [tdev EXCEPT !["ui"] = d]
    /\ UNCHANGED <<cfgVars, subscribers, lockVars, callVars, meterVars,
                   safeVars, shedVars, offVars, pubVars>>
    /\ last' = NoLast

\* EventBus.unsubscribe by thread t (line 362 on the UI thread).
BusUnsubscribe(t) ==
    /\ pc[t] = "unsub"
    /\ BusLockFree
    /\ subscribers' = unsubscribe(subscribers, tdev[t])
    /\ pc' = [pc EXCEPT ![t] = "idle"]
    /\ tdev' = [tdev EXCEPT ![t] = "none"]
    /\ UNCHANGED <<cfgVars, dev, lockVars, callVars, meterVars, safeVars,
                   shedVars, offVars, pubVars>>
    /\ last' = NoLast

\* EventBus.subscribe by thread t (line 365 on the UI thread).
BusSubscribe(t) ==
    /\ pc[t] = "sub"
    /\ BusLockFree
    /\ subscribers' = subscribe(subscribers, tdev[t])
    /\ pc' = [pc EXCEPT ![t] = "idle"]
    /\ tdev' = [tdev EXCEPT ![t] = "none"]
    /\ UNCHANGED <<cfgVars, dev, lockVars, callVars, meterVars, safeVars,
                   shedVars, offVars, pubVars>>
    /\ last' = NoLast

\* The first device of the registry whose name is among the typed names.
FirstNamed(names) ==
    LET hits == {i \in 1..Len(devices) : devices[i] \in names}
    IN  IF hits = {} THEN "none"
        ELSE devices[CHOOSE i \in hits : \A j \in hits : i <= j]

\* on_input_submitted, lines 321-328: the first named device is toggled and
\* device.run() is called on the UI thread; run never returns.
InputSubmitted(names) ==
    /\ pc["ui"] = "idle"
    /\ LET d == FirstNamed(names) IN
        IF d = "none"
        THEN UNCHANGED <<dev, pc, tdev, stale_ticked, offVars>>
        ELSE /\ dev' = [dev EXCEPT ![d].is_on = ~@]
             /\ pc' = [pc EXCEPT !["ui"] = "start"]
             /\ tdev' = [tdev EXCEPT !["ui"] = d]
             /\ ToggleMarks(d)
    /\ UNCHANGED <<cfgVars, subscribers, lockVars, callVars, meterVars,
                   now_stale, shedVars, pubVars>>
    /\ last' = NoLast

\* A second passes.
TimePasses ==
    /\ dev' = [d \in Devs |-> [dev[d] EXCEPT !.hb_age = Older(@)]]
    /\ now_stale' = IF watch = "safe"
                    THEN [d \in Devs |-> Older(now_stale[d])] ELSE now_stale
    /\ UNCHANGED <<cfgVars, subscribers, lockVars, pc, tdev, callVars,
                   meterVars, stale_ticked, shedVars, offVars, pubVars>>
    /\ last' = NoLast

TypedNames == SUBSET (Devs \cup {"XX"})

Next ==
    \/ \E d \in Devs : RunTick(d)
    \/ \E d \in Devs, amps \in 0..MaxReading, track \in BOOLEAN :
           Deliver(d, amps, track)
    \/ \E d \in Devs : ClickStatus(d)
    \/ TimePasses

Spec == Init /\ [][Next]_vars
SpecSafe == InitSafe /\ [][Next]_vars
SpecShed == InitShed /\ [][Next]_vars
SpecRun == InitRun /\ [][Next]_vars
SpecZero == InitZero /\ [][Next]_vars
SpecRamp == InitRamp /\ [][Next]_vars


\* ---------------------------------------------- the threads of the program
\* main, lines 382-408, scaled down to a registry of one device, an EV or a
\* non-EV load, and total_amps = 2.
SysConfigs ==
    {[min_amp_draw |-> 1, max_amp_draw |-> 2, safe_amp_draw |-> 1,
      weight |-> 1, is_ev |-> TRUE, always_draw_min |-> TRUE],
     [min_amp_draw |-> 2, max_amp_draw |-> 2, safe_amp_draw |-> 0,
      weight |-> 1, is_ev |-> FALSE, always_draw_min |-> TRUE]}

InitSys ==
    \E c \in SysConfigs :
        InitWith("sys", 2, <<DeviceName(c)>>, [d \in {DeviceName(c)} |-> c])

\* Device.run, lines 187-192, by thread t: the tests that decide whether this
\* iteration calls set_draw(None); an iteration that does not call ends.
RunCheck(t) ==
    /\ pc[t] = "loop"
    /\ LET d == tdev[t] IN
        IF TickCalls(cfg[d], dev[d])
        THEN /\ pc' = [pc EXCEPT ![t] = "call"]
             /\ tdata' = [tdata EXCEPT ![t] = NoData]
             /\ UNCHANGED ticked
        ELSE /\ ticked' = [ticked EXCEPT ![d] = @ \/ ~dev[d].is_on]
             /\ UNCHANGED <<pc, tdata>>
    /\ last' = NoLast
    /\ UNCHANGED <<cfgVars, dev, subscribers, lockVars, tdev, ton, meterVars,
                   safeVars, shedVars, fresh, settled, pubVars>>

\* set_draw, lines 79-80, by thread t: the device lock is acquired and
\* is_on is read; the invocation has started, after every toggle so far.
SetDrawEnter(t) ==
    /\ pc[t] = "call"
    /\ DevLockFree(tdev[t])
    /\ dev_lock' = [dev_lock EXCEPT ![tdev[t]] = t]
    /\ ton' = [ton EXCEPT ![t] = dev[tdev[t]].is_on]
    /\ pc' = [pc EXCEPT ![t] = "body"]
    /\ fresh' = [fresh EXCEPT ![t] = TRUE]
    /\ last' = NoLast
    /\ UNCHANGED <<cfgVars, dev, subscribers, bus_lock, tdev, tdata,
                   meterVars, safeVars, shedVars, settled, ticked, pubVars>>

\* set_draw, lines 80-179, by thread t: the decision, the release of the
\* device lock and the return to the caller (the loop of run, or the for
\* loop of publish).
SetDrawBody(t) ==
    /\ pc[t] = "body"
    /\ LET d == tdev[t] IN
        /\ \E draw \in Draws(cfg[d], dev[d], ton[t], tdata[t], total_amps) :
               Invoke(d, ton[t], tdata[t], draw, FALSE)
        /\ dev_lock' = ReleaseDevice(d, ton[t])
        /\ settled' = [settled EXCEPT ![d] = @ \/ (fresh[t] /\ ~ton[t])]
        /\ IF bus_lock = t
           THEN /\ pc' = [pc EXCEPT ![t] = "deliver"]
                /\ pub_idx' = [pub_idx EXCEPT ![t] = @ + 1]
                /\ UNCHANGED ticked
           ELSE /\ pc' = [pc EXCEPT ![t] = "loop"]
                /\ ticked' = [ticked EXCEPT ![d] = @ \/ (fresh[t] /\ ~ton[t])]
                /\ UNCHANGED pub_idx
    /\ fresh' = [fresh EXCEPT ![t] = FALSE]
    /\ ton' = [ton EXCEPT ![t] = FALSE]
    /\ tdata' = [tdata EXCEPT ![t] = NoData]
    /\ UNCHANGED <<cfgVars, subscribers, bus_lock, tdev, meter_reading,
                   safeVars, pubVars>>

\* meter_loop, lines 244-247.
MeterPoll ==
    /\ pc["meter"] = "poll"
    /\ meter_reading' = poll_meter
    /\ pc' = [pc EXCEPT !["meter"] = "publish"]
    /\ last' = NoLast
    /\ UNCHANGED <<cfgVars, dev, subscribers, lockVars, tdev, callVars,
                   pub_idx, safeVars, shedVars, offVars, pubVars>>

\* EventBus.publish, line 18, by thread t: the bus lock is acquired.
PublishEnter(t) ==
    /\ pc[t] = "publish"
    /\ BusLockFree
    /\ bus_lock' = t
    /\ pub_idx' = [pub_idx EXCEPT ![t] = 1]
    /\ snapshot' = [snapshot EXCEPT ![t] = subscribers]
    /\ delivered' = [delivered EXCEPT ![t] = <<>>]
    /\ pc' = [pc EXCEPT ![t] = "deliver"]
    /\ last' = NoLast
    /\ UNCHANGED <<cfgVars, dev, subscribers, dev_lock, tdev, callVars,
                   meter_reading, safeVars, shedVars, offVars>>

\* EventBus.publish, lines 19-20: the next callback of the list is called
\* with the reading; it is Device.set_draw of the registered device.
PublishCall(t) ==
    /\ pc[t] = "deliver"
    /\ watch = "sys"
    /\ pub_idx[t] <= Len(subscribers)
    /\ tdev' = [tdev EXCEPT ![t] = subscribers[pub_idx[t]]]
    /\ tdata' = [tdata EXCEPT ![t] = meter_reading]
    /\ delivered' = [delivered EXCEPT ![t] = Append(@, subscribers[pub_idx[t]])]
    /\ pc' = [pc EXCEPT ![t] = "call"]
    /\ last' = NoLast
    /\ UNCHANGED <<cfgVars, dev, subscribers, lockVars, ton, meterVars,
                   safeVars, shedVars, offVars, snapshot>>

\* EventBus.publish: the list is exhausted, the bus lock is released.
PublishExit(t) ==
    /\ pc[t] = "deliver"
    /\ pub_idx[t] > Len(subscribers)
    /\ bus_lock' = "none"
    /\ pc' = [pc EXCEPT ![t] = IF watch = "bus" THEN "idle" ELSE "poll"]
    /\ tdev' = [tdev EXCEPT ![t] = "none"]
    /\ pub_idx' = [pub_idx EXCEPT ![t] = 0]
    /\ snapshot' = [snapshot EXCEPT ![t] = <<>>]
    /\ delivered' = [delivered EXCEPT ![t] = <<>>]
    /\ last' = NoLast
    /\ UNCHANGED <<cfgVars, dev, subscribers, dev_lock, callVars,
                   meter_reading, safeVars, shedVars, offVars>>

NextSys ==
    \/ \E t \in Threads : RunStart(t)
    \/ \E t \in Threads : RunCheck(t)
    \/ \E t \in Threads : SetDrawEnter(t)
    \/ \E t \in Threads : SetDrawBody(t)
    \/ MeterPoll
    \/ PublishEnter("meter")
    \/ PublishCall("meter")
    \/ PublishExit("meter")
    \/ \E d \in Devs : ClickStatus(d)
    \/ \E d \in Devs : ClickDevice(d)
    \/ BusUnsubscribe("ui")
    \/ BusSubscribe("ui")
    \/ \E names \in TypedNames : InputSubmitted(names)
    \/ TimePasses

SpecSys == InitSys /\ [][NextSys]_vars


\* ------------------------------------------- one EV under a spare capacity
\* A registry of one EV whose max_amp_draw is below total_amps: the meter
\* reads the draw of that EV alone, so every reading leaves headroom.
InitLive ==
    \E total \in 2..MaxTotal, c \in Configs :
        /\ c.is_ev /\ c.max_amp_draw < total
        /\ InitWith("live", total, <<"EV1">>, "EV1" :> c)

\* One round of meter_loop, lines 244-248: poll_meter, publish to the
\* subscriber list (empty, or the one EV), then the sleep.  lucky is the
\* outcome of the lottery of the invocation, where it draws one.
MeterPublish(lucky) ==
    /\ pc["meter"] = "poll"
    /\ meter_reading' = poll_meter
    /\ IF subscribers = <<>>
       THEN UNCHANGED <<dev, shedVars>> /\ last' = NoLast
       ELSE LET d == subscribers[1] IN
            \E draw \in Draws(cfg[d], dev[d], dev[d].is_on, poll_meter,
                              total_amps) :
                /\ draw[1] = lucky
                /\ Invoke(d, dev[d].is_on, poll_meter, draw, FALSE)
    /\ pc' = [pc EXCEPT !["meter"] = "sleep"]
    /\ UNCHANGED <<cfgVars, subscribers, lockVars, tdev, callVars, pub_idx,
                   safeVars, offVars, pubVars>>

\* check_in_period_sec passes.  The sleep of the meter, 1.1 s, is shorter:
\* the meter has published since the last period and is due again.
PeriodPasses ==
    /\ pc["meter"] = "sleep"
    /\ dev' = [d \in Devs |-> [dev[d] EXCEPT !.hb_age = Older(@)]]
    /\ pc' = [pc EXCEPT !["meter"] = "poll"]
    /\ last' = NoLast
    /\ UNCHANGED <<cfgVars, subscribers, lockVars, tdev, callVars, meterVars,
                   safeVars, shedVars, offVars, pubVars>>

NextLive ==
    \/ RunStart("EV1")
    \/ RunTick("EV1")
    \/ \E lucky \in BOOLEAN : MeterPublish(lucky)
    \/ ClickStatus("EV1")
    \/ PeriodPasses

\* The threads are scheduled again and again (time passes, the device thread
\* gets to its subscribe), and the lottery is won infinitely often.
SpecLive ==
    /\ InitLive /\ [][NextLive]_vars
    /\ WF_vars(PeriodPasses)
    /\ WF_vars(RunStart("EV1"))
    /\ SF_vars(MeterPublish(TRUE))

\* ------------------------------------------------- the EventBus on its own
\* Any thread may call any method of the bus at any time: the threads of the
\* program become clients that publish, subscribe and unsubscribe the handles
\* of two devices, and a callback does nothing but record its invocation.
BusDevices == <<"EV1", "AC">>

InitBus ==
    InitWith("bus", 2, BusDevices,
             [d \in {"EV1", "AC"} |->
                 CHOOSE c \in SysConfigs : DeviceName(c) = d])

\* A call of publish(topic, message), line 17, before it has the lock.
CallPublish(t) ==
    /\ pc[t] = "idle"
    /\ pc' = [pc EXCEPT ![t] = "publish"]
    /\ last' = NoLast
    /\ UNCHANGED <<cfgVars, dev, subscribers, lockVars, tdev, callVars,
                   meterVars, safeVars, shedVars, offVars, pubVars>>

\* A call of subscribe(topic, callback), line 22, before it has the lock.
CallSubscribe(t, h) ==
    /\ pc[t] = "idle"
    /\ Len(subscribers) + Cardinality({u \in Threads : pc[u] = "sub"}) < MaxSubs
    /\ pc' = [pc EXCEPT ![t] = "sub"]
    /\ tdev' = [tdev EXCEPT ![t] = h]
    /\ last' = NoLast
    /\ UNCHANGED <<cfgVars, dev, subscribers, lockVars, callVars, meterVars,
                   safeVars, shedVars, offVars, pubVars>>

\* A call of unsubscribe(topic, callback), line 28, before it has the lock.
CallUnsubscribe(t, h) ==
    /\ pc[t] = "idle"
    /\ pc' = [pc EXCEPT ![t] = "unsub"]
    /\ tdev' = [tdev EXCEPT ![t] = h]
    /\ last' = NoLast
    /\ UNCHANGED <<cfgVars, dev, subscribers, lockVars, callVars, meterVars,
                   safeVars, shedVars, offVars, pubVars>>

\* EventBus.publish, lines 19-20: the for loop takes the element of the
\* live list at its index and calls it; the callback returns.
PublishDeliver(t) ==
    /\ pc[t] = "deliver"
    /\ watch = "bus"
    /\ pub_idx[t] <= Len(subscribers)
    /\ delivered' = [delivered EXCEPT ![t] = Append(@, subscribers[pub_idx[t]])]
    /\ pub_idx' = [pub_idx EXCEPT ![t] = @ + 1]
    /\ last' = NoLast
    /\ UNCHANGED <<cfgVars, dev, subscribers, lockVars, pc, tdev, callVars,
                   meter_reading, safeVars, shedVars, offVars, snapshot>>

NextBus ==
    \/ \E t \in Threads : CallPublish(t)
    \/ \E t \in Threads, h \in Devs : CallSubscribe(t, h)
    \/ \E t \in Threads, h \in Devs : CallUnsubscribe(t, h)
    \/ \E t \in Threads : PublishEnter(t)
    \/ \E t \in Threads : PublishDeliver(t)
    \/ \E t \in Threads : PublishExit(t)
    \/ \E t \in Threads : BusSubscribe(t)
    \/ \E t \in Threads : BusUnsubscribe(t)

SpecBus == InitBus /\ [][NextBus]_vars

\* ---------------------------------------------------- waiting for a lock
WantsBus(t) ==
    \/ pc[t] \in {"publish", "sub", "unsub"}
    \/ pc[t] = "start" /\ cfg[tdev[t]].is_ev

WantsDev(t) == pc[t] = "call"

HoldsDev(t) == \E d \in Devs : dev_lock[d] = t

\* The owner of the lock that t is waiting for, "none" if the lock is free.
Holder(t) ==
    IF WantsBus(t) THEN bus_lock
    ELSE IF WantsDev(t) THEN dev_lock[tdev[t]]
    ELSE "none"

Blocked(t) == Holder(t) # "none"

\* t waits for a thread that waits for a thread ... n times over: with n the
\* number of threads, the chain returns to one of its members.
RECURSIVE WaitsForever(_, _)
WaitsForever(t, n) ==
    /\ Blocked(t)
    /\ n = 0 \/ WaitsForever(Holder(t), n - 1)

\* ------------------------------------------------------------- claims
\* C1: for every device of a valid configuration, 0 <= current_amp_draw <=
\* max_amp_draw in every reachable state.
C1_DrawWithinMax ==
    \A d \in Devs : /\ 0 <= dev[d].current_amp_draw
                    /\ dev[d].current_amp_draw <= cfg[d].max_amp_draw

\* C2: while a device is off, a set_draw invocation that started after the
\* toggle has left current_amp_draw = desired_amp_draw = 0 and the draw has
\* stayed 0 since, and every iteration of a run loop that followed the toggle
\* has performed such an invocation.
C2_OffInvariant ==
    \A d \in Devs :
        ~dev[d].is_on =>
            /\ ticked[d] => settled[d]
            /\ settled[d] => /\ dev[d].current_amp_draw = 0
                             /\ dev[d].desired_amp_draw = 0

\* An EV that was charging a moment ago is off, its timer has ticked since,
\* and the meter is delivering a reading to it.
C2_Witness ==
    \E d \in Devs : /\ ~dev[d].is_on /\ ticked[d] /\ settled[d]
                    /\ cfg[d].is_ev /\ dev[d].hb_age < StaleAge
                    /\ pc["meter"] = "body" /\ tdev["meter"] = d
                    /\ dev[d].current_amp_draw = 0

\* C3: after every completed set_draw invocation an EV draws nothing or at
\* least min_amp_draw: 0 < current_amp_draw < min_amp_draw is unreachable.
C3_MinimumDrawFloor ==
    \A d \in Devs :
        cfg[d].is_ev => \/ dev[d].current_amp_draw = 0
                        \/ dev[d].current_amp_draw >= cfg[d].min_amp_draw

\* A shed of an EV with min_amp_draw > 1 has just ended on the floor.
C3_Witness ==
    \E d \in Devs :
        /\ last.dev = d
        /\ last.branch \in {"shed_weighted", "shed_full"}
        /\ cfg[d].is_ev /\ cfg[d].min_amp_draw > 1
        /\ dev[d].current_amp_draw = Floor(cfg[d])

\* C4: once a timer tick has run on an on EV to which no reading was
\* delivered for more than check_in_period_sec, current_amp_draw <=
\* safe_amp_draw for as long as the device stays on and receives no reading.
C4_SafeModeClamp ==
    \A d \in Devs :
        (stale_ticked[d] /\ dev[d].is_on)
            => dev[d].current_amp_draw <= cfg[d].safe_amp_draw

\* C5: once a connection toggle that disconnects d has completed, set_draw
\* of d is not in the subscriber list and no publish invokes it.
C5_DisconnectIsolation ==
    \A d \in Devs :
        (~dev[d].is_connected /\ ~(pc["ui"] = "unsub" /\ tdev["ui"] = d)) =>
            /\ Count(subscribers, d) = 0
            /\ \A t \in Threads :
                   ~(bus_lock = t /\ pc[t] \in {"call", "body"} /\ tdev[t] = d)

\* C6 as stated: a full compliant shed comes within 4 consecutive overdraw
\* invocations, so no 4 consecutive invocations are all weighted sheds.
C6_FullShedWithinFour ==
    \A d \in Devs : shed_run[d].weighted <= max_delay

\* C6 amended: a full compliant shed comes within 5 consecutive invocations
\* that take the overdraw branch: at most max_delay + 1 = 4 weighted sheds
\* are performed in a row, and a full shed ends a run of at most 4.
C6_FullShedWithinFive ==
    \A d \in Devs : /\ shed_run[d].weighted <= max_delay + 1
                    /\ shed_run[d].full_after <= max_delay + 1
                    /\ shed_run[d].full_after # NoData
                          => dev[d].waited_cycles = 0

\* A full compliant shed has just been performed as the fifth invocation of
\* an overdraw run.
C6_Witness ==
    \E d \in Devs : /\ shed_run[d].full_after = max_delay + 1
                    /\ dev[d].is_on /\ dev[d].waited_cycles = 0

\* C7: after 5 consecutive readings of the same overdraw o given to an on EV
\* that started with waited_cycles = 0 and current_amp_draw = c0,
\* waited_cycles has been reset and current_amp_draw <= c0 - o or is the floor.
C7_FiveCycleShed ==
    \A d \in Devs :
        scn[d].n = 5 =>
            /\ scn[d].reset
            /\ \/ dev[d].current_amp_draw <= scn[d].c0 - scn[d].o
               \/ dev[d].current_amp_draw = Floor(cfg[d])

\* C8: a publish in flight holds the bus alone, the subscriber list is the
\* list it started with, and it has invoked the handles of that list up to
\* its index, one invocation per registration, in order; so it returns
\* having delivered to the whole list, and no other publish, subscribe or
\* unsubscribe takes effect in between.
C8_PublishDelivery ==
    /\ Cardinality({t \in Threads : pc[t] = "deliver"}) <= 1
    /\ \A t \in Threads :
           pc[t] = "deliver" =>
               /\ subscribers = snapshot[t]
               /\ pub_idx[t] <= Len(snapshot[t]) + 1
               /\ delivered[t] = SubSeq(snapshot[t], 1, pub_idx[t] - 1)

\* A publish is between its deliveries to two different handles while a
\* second publish and a subscribe or unsubscribe of other threads wait.
C8_Witness ==
    \E t, u, v \in Threads :
        /\ pc[t] = "deliver" /\ pub_idx[t] = 2 /\ Len(snapshot[t]) >= 2
        /\ snapshot[t][1] # snapshot[t][2]
        /\ delivered[t] = <<snapshot[t][1]>>
        /\ pc[u] = "publish"
        /\ pc[v] \in {"sub", "unsub"}

\* C9: the set_draw handle of each device is at most once in the subscriber
\* list of meter/data.
C9_HandleAtMostOnce ==
    \A d \in Devs : Count(subscribers, d) <= 1

\* C10: no thread requests the bus lock while it holds a device lock, no
\* thread requests a device lock it holds, and no thread waits for a lock in
\* a chain of waiting threads that closes on itself.
C10_LockOrder ==
    \A t \in Threads :
        /\ WantsBus(t) => ~HoldsDev(t)
        /\ WantsDev(t) => dev_lock[tdev[t]] # t
        /\ ~WaitsForever(t, Cardinality(Threads))

\* The meter, inside publish with the bus lock, waits for the lock of a
\* device whose own thread is inside set_draw, while the UI thread waits for
\* the bus lock.
C10_Witness ==
    /\ bus_lock = "meter" /\ pc["meter"] = "call"
    /\ dev_lock[tdev["meter"]] = tdev["meter"]
    /\ WantsBus("ui") /\ Blocked("ui")

\* C11: a step that flips is_on of a device (a click on its status cell or
\* its name submitted as text) changes nothing else of any device, leaves the
\* subscriber list alone, and leaves the UI thread free for the next command.
C11_TogglePowerFrame ==
    [][\A d \in Devs :
          dev'[d].is_on # dev[d].is_on =>
              /\ dev' = [dev EXCEPT ![d].is_on = ~@]
              /\ subscribers' = subscribers
              /\ pc'["ui"] = "idle"]_vars

\* C12: carryover_adjustment is in [0, 1) (a numerator in 0..total_amps, the
\* value total_amps standing for the double just below 1, which only a
\* total_amps that is not a power of two produces), and every admitted
\* ramp-up step of a drawing EV whose raw weighted increase is below 1
\* conserves: integer increase applied + carryover after = carryover before
\* + raw weighted increase, in units of 1/total_amps; so does any run of
\* such steps.
C12_CarryoverConservation ==
    \A d \in Devs :
        LET c == cfg[d]
            s == dev[d]
        IN  /\ s.carryover_adjustment \in 0..total_amps
            /\ s.carryover_adjustment = total_amps => ~IsPow2(total_amps)
            /\ \A data \in Readings :
                 \A draw \in Draws(c, s, s.is_on, data, total_amps) :
                   LET s1 == SafeClamp(c, s, data)
                       raw == RawIncrease(c, s, data, total_amps)
                       post == set_draw(c, s, s.is_on, data, total_amps,
                                        draw[1], draw[2])
                   IN  (/\ Branch(c, s, post, s.is_on, data, total_amps,
                                  draw[1]) = "ramp"
                        /\ raw < total_amps)
                       => (post.current_amp_draw - s1.current_amp_draw)
                              * total_amps + post.carryover_adjustment
                          = s1.carryover_adjustment + raw

\* A ramp-up step has just brought an EV of weight < total_amps to its
\* maximum: the unit applied is made of increases below 1.
C12_Witness ==
    \E d \in Devs :
        /\ last.dev = d /\ last.branch = "ramp"
        /\ cfg[d].weight < total_amps
        /\ cfg[d].max_amp_draw > cfg[d].min_amp_draw
        /\ dev[d].current_amp_draw = cfg[d].max_amp_draw
        /\ dev[d].carryover_adjustment = 0

\* C13: with total_amps = 0 no set_draw invocation ends in a
\* ZeroDivisionError and no thread is ended by one.
C13_ZeroCapacityGuard ==
    /\ last.branch # "ZeroDivisionError"
    /\ \A t \in Threads : pc[t] # "dead"

\* C14: a non-EV device draws 0 or min_amp_draw; when it is on, a set_draw
\* with any reading or none takes it from 0 to current_amp_draw =
\* desired_amp_draw = min_amp_draw and changes nothing when it is at
\* min_amp_draw.
C14_NonEvBinaryLoad ==
    \A d \in Devs :
        ~cfg[d].is_ev =>
            LET c == cfg[d]
                s == dev[d]
            IN  /\ s.current_amp_draw \in {0, c.min_amp_draw}
                /\ s.is_on =>
                     \A data \in Readings :
                       LET post == set_draw(c, s, TRUE, data, total_amps,
                                            TRUE, FALSE)
                       IN  /\ s.current_amp_draw = 0 =>
                                /\ post.current_amp_draw = c.min_amp_draw
                                /\ post.desired_amp_draw = c.min_amp_draw
                           /\ s.current_amp_draw = c.min_amp_draw => post = s

\* An on non-EV load at min_amp_draw has just gone through a set_draw that
\* held it there.
C14_Witness ==
    \E d \in Devs :
        /\ ~cfg[d].is_ev /\ dev[d].is_on
        /\ last.dev = d /\ last.branch = "nonev_hold"
        /\ dev[d].current_amp_draw = cfg[d].min_amp_draw
        /\ cfg[d].min_amp_draw > 1

\* C15: a set_draw invocation without a reading leaves the heartbeat of an
\* on EV as it was, and an on EV whose last reading is more than
\* check_in_period_sec old is called with no reading by every timer tick.
C15_HeartbeatFrame ==
    \A d \in Devs :
        (cfg[d].is_ev /\ dev[d].is_on) =>
            /\ \A draw \in Draws(cfg[d], dev[d], TRUE, NoData, total_amps) :
                   set_draw(cfg[d], dev[d], TRUE, NoData, total_amps,
                            draw[1], draw[2]).hb_age = dev[d].hb_age
            /\ now_stale[d] > check_in_period_sec => TickCalls(cfg[d], dev[d])

\* C16: an admitted ramp-up step of a drawing EV raises current_amp_draw by
\* the whole integer part of the weighted increase plus the carryover,
\* clamped to max_amp_draw, and keeps the fractional part as the carryover.
C16_RampUpStep ==
    \A d \in Devs :
        (cfg[d].is_ev /\ dev[d].is_on /\ dev[d].current_amp_draw > 0) =>
            \A data \in Readings :
              \A draw \in Draws(cfg[d], dev[d], TRUE, data, total_amps) :
                LET c == cfg[d]
                    s1 == SafeClamp(c, dev[d], data)
                    post == set_draw(c, dev[d], TRUE, data, total_amps,
                                     draw[1], draw[2])
                    m == Modf(RawIncrease(c, dev[d], data, total_amps),
                              s1.carryover_adjustment, total_amps, draw[2])
                IN  Branch(c, dev[d], post, TRUE, data, total_amps, draw[1])
                        = "ramp"
                    => /\ post.current_amp_draw =
                              Min(c.max_amp_draw,
                                  s1.current_amp_draw + m.increase)
                       /\ post.carryover_adjustment = m.fraction

\* C17: a set_draw on an on EV, past the bootstrap, with a reading equal to
\* total_amps, or with no reading while current_amp_draw = safe_amp_draw,
\* leaves current_amp_draw as it was and desired_amp_draw equal to it,
\* whatever the lottery draws.
C17_BalancedHold ==
    \A d \in Devs :
        LET c == cfg[d]
            s == dev[d]
        IN  (/\ c.is_ev /\ s.is_on
             /\ ~(c.always_draw_min /\ s.current_amp_draw = 0)) =>
                \A data \in Readings :
                    (\/ data = total_amps
                     \/ data = NoData /\ s.current_amp_draw = c.safe_amp_draw)
                    => \A draw \in Draws(c, s, TRUE, data, total_amps) :
                          LET post == set_draw(c, s, TRUE, data, total_amps,
                                               draw[1], draw[2])
                          IN  /\ post.current_amp_draw = s.current_amp_draw
                              /\ post.desired_amp_draw = post.current_amp_draw

\* C18: a set_draw invocation that finds the device off leaves
\* waited_cycles = 0 and carryover_adjustment = 0.
C18_OffBranchReset ==
    \A d \in Devs :
        (last.dev = d /\ last.branch = "off") =>
            /\ dev[d].waited_cycles = 0
            /\ dev[d].carryover_adjustment = 0

\* C19: waited_cycles is in 0..4; a weighted shed is taken with
\* waited_cycles <= 3 and adds 1, a full compliant shed is taken with
\* waited_cycles = 4 and resets it, the off branch resets it, and every
\* other invocation (bootstrap, safe mode, headroom, at maximum, non-EV)
\* leaves it as it was.
C19_WaitedCyclesRange ==
    \A d \in Devs :
        LET c == cfg[d]
            s == dev[d]
        IN  /\ s.waited_cycles \in 0..(max_delay + 1)
            /\ \A data \in Readings :
                 \A draw \in Draws(c, s, s.is_on, data, total_amps) :
                   LET post == set_draw(c, s, s.is_on, data, total_amps,
                                        draw[1], draw[2])
                       br == Branch(c, s, post, s.is_on, data, total_amps,
                                    draw[1])
                   IN  IF br = "shed_weighted"
                       THEN /\ s.waited_cycles <= max_delay
                            /\ post.waited_cycles = s.waited_cycles + 1
                       ELSE IF br = "shed_full"
                       THEN /\ s.waited_cycles = max_delay + 1
                            /\ post.waited_cycles = 0
                       ELSE IF br = "off" THEN post.waited_cycles = 0
                       ELSE post.waited_cycles = s.waited_cycles

\* An EV that had counted four weighted sheds has just been through an
\* invocation of the headroom branch and still counts four.
C19_Witness ==
    \E d \in Devs :
        /\ dev[d].waited_cycles = max_delay + 1
        /\ last.dev = d
        /\ last.branch \in {"unstable", "not_admitted", "ramp"}

\* C20: a single connected EV under a capacity above its max_amp_draw that
\* is on reaches current_amp_draw = max_amp_draw, unless it is switched off
\* first.
C20_ReachesMax ==
    dev["EV1"].is_on
        ~> (\/ dev["EV1"].current_amp_draw = cfg["EV1"].max_amp_draw
            \/ ~dev["EV1"].is_on)

\* An on, subscribed EV of weight < total_amps stands at a max_amp_draw
\* that is above its min_amp_draw, after a publish.
C20_Witness ==
    /\ dev["EV1"].is_on /\ subscribers = <<"EV1">>
    /\ pc["meter"] = "sleep"
    /\ cfg["EV1"].weight < total_amps
    /\ cfg["EV1"].max_amp_draw > cfg["EV1"].min_amp_draw
    /\ dev["EV1"].current_amp_draw = cfg["EV1"].max_amp_draw

====
